---- MODULE Spec2Model ----
(***************************************************************************)
(* Diarization decoding and alignment of medical-scribe:                   *)
(*   getMs, mergeDiarization        (diarizationMerge)                     *)
(*   the decoder loop of diarizeAudio (localDiarization)                   *)
(*   refineSpeakerLabels, diarizeWithGroq (groqUtils)                      *)
(*                                                                         *)
(* JavaScript numbers are modelled as exact non-negative rationals         *)
(* [n, d] in lowest terms; NaN is the value with d = 0.  Strings are       *)
(* sequences of one-character strings, so that parsing, joining and        *)
(* splitting are computed character by character.                          *)
(***************************************************************************)
EXTENDS Integers, Sequences, FiniteSets, TLC

VARIABLES
    gIn, gOut, gpc,                 \* getMs: argument, result, position
    words, segments, utterances, mpc, \* mergeDiarization: arguments, result, position
    labeledWords,    \* mergeDiarization: the labelled words after the three passes
    \* the decoder loop of diarizeAudio
    frames,          \* logits.dims[1]
    samples,         \* channelData.length
    frameIndex,      \* the loop index i
    currentSpeaker, startFrame, decSegments,
    classes,         \* the maxIdx of every frame read so far
    dpc,
    \* the argmax of one frame
    rawFrame, maxIdx, apc,
    \* refineSpeakerLabels: argument, the collaborator's reply, result, position
    rUtterances, rReply, rResult, rpc,
    \* diarizeWithGroq: argument, the collaborator's reply, result,
    \* whether it threw, position
    qWords, qReply, qResult, qRaised, qpc,
    \* loadModel under concurrent diarizeAudio calls
    processor, model,   \* the module-level handles, 0 for null
    lpc,                \* the position of every call
    pending,            \* the object the from_pretrained a call awaits resolves to
    pair,               \* the { processor, model } a call got from loadModel
    processorLoads, modelLoads  \* calls of from_pretrained made so far

vars == <<gIn, gOut, gpc, words, segments, utterances, mpc, labeledWords,
          frames, samples, frameIndex, currentSpeaker, startFrame, decSegments, classes, dpc,
          rawFrame, maxIdx, apc,
          rUtterances, rReply, rResult, rpc,
          qWords, qReply, qResult, qRaised, qpc,
          processor, model, lpc, pending, pair, processorLoads, modelLoads>>

----------------------------------------------------------------------------
(* Bounds *)

MaxStrLen == 3
MaxWords == 3
MaxSegments == 2
MaxFrames == 3
MaxSeconds == 2
MaxScore == 1
MaxUtterances == 2
MaxTurns == 2
MaxGroqWords == 3
MaxCalls == 3

----------------------------------------------------------------------------
(* Numbers *)

RECURSIVE GCD(_, _)
GCD(a, b) == IF b = 0 THEN a ELSE GCD(b, a % b)

Norm(n, d) == LET g == GCD(n, d) IN [n |-> n \div g, d |-> d \div g]

Rat(k) == [n |-> k, d |-> 1]
NaN == [n |-> 0, d |-> 0]
Zero == Rat(0)
IsNaN(x) == x.d = 0

RAdd(a, b) == IF IsNaN(a) \/ IsNaN(b) THEN NaN
              ELSE Norm(a.n * b.d + b.n * a.d, a.d * b.d)
RMul(a, b) == IF IsNaN(a) \/ IsNaN(b) THEN NaN
              ELSE Norm(a.n * b.n, a.d * b.d)
\* a / b; x / 0 (Infinity or NaN in the source) is only ever computed for
\* secondsPerFrame when frames = 0, where it is never used.
RDiv(a, b) == IF IsNaN(a) \/ IsNaN(b) \/ b.n = 0 THEN NaN
              ELSE Norm(a.n * b.d, a.d * b.n)
\* a - b for a >= b
RSub(a, b) == IF IsNaN(a) \/ IsNaN(b) THEN NaN
              ELSE Norm(a.n * b.d - b.n * a.d, a.d * b.d)
\* every comparison with NaN is false
RLe(a, b) == ~IsNaN(a) /\ ~IsNaN(b) /\ a.n * b.d <= b.n * a.d
RGe(a, b) == RLe(b, a)
RLt(a, b) == ~IsNaN(a) /\ ~IsNaN(b) /\ a.n * b.d < b.n * a.d

----------------------------------------------------------------------------
(* Strings *)

Digits == {"0", "1", "2", "3", "4", "5", "6", "7", "8", "9"}

DigitVal(c) == CASE c = "0" -> 0 [] c = "1" -> 1 [] c = "2" -> 2
                 [] c = "3" -> 3 [] c = "4" -> 4 [] c = "5" -> 5
                 [] c = "6" -> 6 [] c = "7" -> 7 [] c = "8" -> 8
                 [] c = "9" -> 9

\* number of digits of s starting at position i
RECURSIVE DigitRun(_, _)
DigitRun(s, i) == IF i <= Len(s) /\ s[i] \in Digits
                  THEN 1 + DigitRun(s, i + 1) ELSE 0

\* value of the k digits of s starting at position i
RECURSIVE DigitsValue(_, _, _)
DigitsValue(s, i, k) == IF k = 0 THEN 0
                        ELSE DigitsValue(s, i, k - 1) * 10 + DigitVal(s[i + k - 1])

RECURSIVE Pow10(_)
Pow10(k) == IF k = 0 THEN 1 ELSE 10 * Pow10(k - 1)

\* String.prototype.endsWith('s')
endsWith_s(s) == Len(s) > 0 /\ s[Len(s)] = "s"

\* parseInt: the longest decimal-digit prefix, NaN when there is none
parseInt(s) == LET k == DigitRun(s, 1) IN
               IF k = 0 THEN NaN ELSE Rat(DigitsValue(s, 1, k))

\* parseFloat: the longest prefix of the form digits [. digits] or . digits,
\* NaN when there is none; whatever follows is ignored
parseFloat(s) ==
    LET k == DigitRun(s, 1)
        dot == k + 1 <= Len(s) /\ s[k + 1] = "."
        f == IF dot THEN DigitRun(s, k + 2) ELSE 0
    IN  IF k = 0 /\ f = 0 THEN NaN
        ELSE RAdd(Rat(DigitsValue(s, 1, k)),
                  Norm(DigitsValue(s, k + 2, f), Pow10(f)))

----------------------------------------------------------------------------
(* Time values: the startTime / endTime of a Word *)

NoStr == <<>>

\* a seconds / nanos field: absent, a number or a string
FUndef == [kind |-> "undefined", num |-> Zero, str |-> NoStr]
FNum(r) == [kind |-> "number", num |-> r, str |-> NoStr]
FStr(s) == [kind |-> "string", num |-> Zero, str |-> s]

TUndef == [kind |-> "undefined", num |-> Zero, str |-> NoStr,
           seconds |-> FUndef, nanos |-> FUndef]
TNull == [kind |-> "null", num |-> Zero, str |-> NoStr,
          seconds |-> FUndef, nanos |-> FUndef]
TNum(r) == [kind |-> "number", num |-> r, str |-> NoStr,
            seconds |-> FUndef, nanos |-> FUndef]
TStr(s) == [kind |-> "string", num |-> Zero, str |-> s,
            seconds |-> FUndef, nanos |-> FUndef]
TObj(sec, nan) == [kind |-> "object", num |-> Zero, str |-> NoStr,
                   seconds |-> sec, nanos |-> nan]

\* JavaScript truthiness of a value of one of these shapes
Truthy(v) == CASE v.kind = "undefined" -> FALSE
               [] v.kind = "null" -> FALSE
               [] v.kind = "number" -> ~IsNaN(v.num) /\ v.num.n # 0
               [] v.kind = "string" -> v.str # <<>>
               [] OTHER -> TRUE

\* typeof x === 'number' ? x : parseInt(String(x))
FieldNumber(f) == IF f.kind = "number" THEN f.num ELSE parseInt(f.str)

getMs(t) ==
    IF ~Truthy(t) THEN Zero
    ELSE IF t.kind = "number" THEN t.num
    ELSE IF t.kind = "string" THEN
        IF endsWith_s(t.str) THEN RMul(parseFloat(t.str), Rat(1000))
        ELSE parseFloat(t.str)
    ELSE LET s == IF Truthy(t.seconds) THEN FieldNumber(t.seconds) ELSE Zero
             n == IF Truthy(t.nanos) THEN FieldNumber(t.nanos) ELSE Zero
         IN  RAdd(RMul(s, Rat(1000)), RDiv(n, Rat(1000000)))
----------------------------------------------------------------------------
(* mergeDiarization *)

\* Array.prototype.join(' ') over an array of strings
RECURSIVE Join(_)
Join(ss) == IF Len(ss) = 0 THEN <<>>
            ELSE IF Len(ss) = 1 THEN ss[1]
            ELSE ss[1] \o <<" ">> \o Join(Tail(ss))

UNKNOWN == <<"U", "N", "K", "N", "O", "W", "N">>
SPEAKER_ == <<"S", "P", "E", "A", "K", "E", "R", "_">>

\* String.fromCharCode(c) for the codes of the capital letters
Capitals == <<"A", "B", "C", "D", "E", "F", "G", "H", "I", "J", "K", "L", "M",
              "N", "O", "P", "Q", "R", "S", "T", "U", "V", "W", "X", "Y", "Z">>
fromCharCode(c) == <<Capitals[c - 64]>>

\* first position >= p at which SPEAKER_ followed by a digit occurs in s,
\* 0 when there is none: the match of /SPEAKER_(\d+)/
RECURSIVE MatchAt(_, _)
MatchAt(s, p) ==
    IF p + 8 > Len(s) THEN 0
    ELSE IF SubSeq(s, p, p + 7) = SPEAKER_ /\ s[p + 8] \in Digits THEN p
    ELSE MatchAt(s, p + 1)

\* SPEAKER_00 -> A, SPEAKER_01 -> B; any other label is kept
Canonical(speaker) ==
    LET p == MatchAt(speaker, 1) IN
    IF p = 0 THEN speaker
    ELSE LET num == DigitsValue(speaker, p + 8, DigitRun(speaker, p + 8))
         IN  fromCharCode(65 + num)

\* segments.find(seg => midpoint >= seg.start && midpoint <= seg.end):
\* index of the first such segment from position i on, 0 when there is none
RECURSIVE FindSegment(_, _, _)
FindSegment(segs, midpoint, i) ==
    IF i > Len(segs) THEN 0
    ELSE IF RGe(midpoint, segs[i].start) /\ RLe(midpoint, segs[i].end) THEN i
    ELSE FindSegment(segs, midpoint, i + 1)

\* the body of words.map(word => ...)
LabelWord(word, segs) ==
    LET start == getMs(word.startTime)
        end == getMs(word.endTime)
        midpoint == RDiv(RAdd(start, end), Rat(2))
        match == FindSegment(segs, midpoint, 1)
        speaker == IF match # 0 THEN segs[match].speaker ELSE UNKNOWN
    IN  [word |-> word.word, start |-> start, end |-> end,
         speaker |-> Canonical(speaker)]

\* a forward pass that never copies
ForwardPassNone(lw, i) == lw

\* for (i = 1; i < length; i++): copy a known speaker onto the next UNKNOWN
RECURSIVE ForwardPass(_, _)
ForwardPass(lw, i) ==
    IF i > Len(lw) THEN lw
    ELSE IF lw[i].speaker = UNKNOWN /\ lw[i - 1].speaker # UNKNOWN
         THEN ForwardPass([lw EXCEPT ![i].speaker = lw[i - 1].speaker], i + 1)
         ELSE ForwardPass(lw, i + 1)

\* for (i = length - 2; i >= 0; i--): copy a known speaker onto the previous UNKNOWN
RECURSIVE BackwardPass(_, _)
BackwardPass(lw, i) ==
    IF i < 1 THEN lw
    ELSE IF lw[i].speaker = UNKNOWN /\ lw[i + 1].speaker # UNKNOWN
         THEN BackwardPass([lw EXCEPT ![i].speaker = lw[i + 1].speaker], i - 1)
         ELSE BackwardPass(lw, i - 1)

FinalFallbackNone(lw) == lw

\* whatever is still UNKNOWN becomes 'A'
FinalFallback(lw) ==
    [i \in 1..Len(lw) |->
        IF lw[i].speaker = UNKNOWN THEN [lw[i] EXCEPT !.speaker = <<"A">>]
        ELSE lw[i]]

CloseGroup(cur) == [speaker |-> cur.speaker, text |-> Join(cur.words),
                    start |-> cur.start, end |-> cur.end]

\* a speaker change that starts the new group without its first word
RECURSIVE CollapseLoopDrop(_, _, _, _)
CollapseLoopDrop(lw, i, cur, out) ==
    IF i > Len(lw) THEN Append(out, CloseGroup(cur))
    ELSE IF lw[i].speaker = cur.speaker
         THEN CollapseLoopDrop(lw, i + 1,
                  [cur EXCEPT !.words = Append(@, lw[i].word), !.end = lw[i].end],
                  out)
         ELSE CollapseLoopDrop(lw, i + 1,
                  [speaker |-> lw[i].speaker, words |-> <<>>,
                   start |-> lw[i].start, end |-> lw[i].end],
                  Append(out, CloseGroup(cur)))

\* a group whose end stays that of its first word
RECURSIVE CollapseLoopStaleEnd(_, _, _, _)
CollapseLoopStaleEnd(lw, i, cur, out) ==
    IF i > Len(lw) THEN Append(out, CloseGroup(cur))
    ELSE IF lw[i].speaker = cur.speaker
         THEN CollapseLoopStaleEnd(lw, i + 1,
                  [cur EXCEPT !.words = Append(@, lw[i].word)], out)
         ELSE CollapseLoopStaleEnd(lw, i + 1,
                  [speaker |-> lw[i].speaker, words |-> <<lw[i].word>>,
                   start |-> lw[i].start, end |-> lw[i].end],
                  Append(out, CloseGroup(cur)))

\* the collapse loop from word i on, with the open group cur and the
\* utterances out pushed so far, followed by the final push
RECURSIVE CollapseLoop(_, _, _, _)
CollapseLoop(lw, i, cur, out) ==
    IF i > Len(lw) THEN Append(out, CloseGroup(cur))
    ELSE IF lw[i].speaker = cur.speaker
         THEN CollapseLoop(lw, i + 1,
                  [cur EXCEPT !.words = Append(@, lw[i].word), !.end = lw[i].end],
                  out)
         ELSE CollapseLoop(lw, i + 1,
                  [speaker |-> lw[i].speaker, words |-> <<lw[i].word>>,
                   start |-> lw[i].start, end |-> lw[i].end],
                  Append(out, CloseGroup(cur)))

Collapse(lw) ==
    IF Len(lw) = 0 THEN <<>>
    ELSE CollapseLoop(lw, 2,
             [speaker |-> lw[1].speaker, words |-> <<lw[1].word>>,
              start |-> lw[1].start, end |-> lw[1].end],
             <<>>)

\* words[0]?.startTime and words[words.length - 1]?.endTime
FirstStartTime(ws) == IF Len(ws) = 0 THEN TUndef ELSE ws[1].startTime
LastEndTime(ws) == IF Len(ws) = 0 THEN TUndef ELSE ws[Len(ws)].endTime

EmptySegmentsBlockFirstEnd(ws) ==
    <<[speaker |-> <<"A">>,
       text |-> Join([i \in 1..Len(ws) |-> ws[i].word]),
       start |-> getMs(FirstStartTime(ws)),
       end |-> getMs(IF Len(ws) = 0 THEN TUndef ELSE ws[1].endTime)]>>

\* the single block returned when there are no segments
EmptySegmentsBlock(ws) ==
    <<[speaker |-> <<"A">>,
       text |-> Join([i \in 1..Len(ws) |-> ws[i].word]),
       start |-> getMs(FirstStartTime(ws)),
       end |-> getMs(LastEndTime(ws))]>>

\* the labelled words after the three passes
ResolvedWords(ws, segs) ==
    LET labeled == [i \in 1..Len(ws) |-> LabelWord(ws[i], segs)]
        fwd == ForwardPass(labeled, 2)
        bwd == BackwardPass(fwd, Len(fwd) - 1)
    IN  FinalFallback(bwd)

mergeDiarization(ws, segs) ==
    IF Len(segs) = 0 THEN EmptySegmentsBlock(ws)
    ELSE Collapse(ResolvedWords(ws, segs))

----------------------------------------------------------------------------
(* The decoder loop of diarizeAudio *)

sampleRate == 16000
numClasses == 7

SPEAKER_00 == SPEAKER_ \o <<"0", "0">>
SPEAKER_01 == SPEAKER_ \o <<"0", "1">>
SPEAKER_02 == SPEAKER_ \o <<"0", "2">>

\* null; no speaker label is the empty string
NullSpeaker == <<>>

getSpeakerLabelSilenceAsSpeaker(classIdx) ==
    CASE classIdx = 0 -> SPEAKER_00
      [] classIdx = 1 -> SPEAKER_00
      [] classIdx = 2 -> SPEAKER_01
      [] classIdx = 3 -> SPEAKER_02
      [] classIdx = 4 -> SPEAKER_00
      [] classIdx = 5 -> SPEAKER_00
      [] classIdx = 6 -> SPEAKER_01
      [] OTHER -> NullSpeaker

\* the overlap B+C attributed to its second speaker
getSpeakerLabelSecondOfPair(classIdx) ==
    CASE classIdx = 0 -> NullSpeaker
      [] classIdx = 1 -> SPEAKER_00
      [] classIdx = 2 -> SPEAKER_01
      [] classIdx = 3 -> SPEAKER_02
      [] classIdx = 4 -> SPEAKER_00
      [] classIdx = 5 -> SPEAKER_00
      [] classIdx = 6 -> SPEAKER_02
      [] OTHER -> NullSpeaker

getSpeakerLabel(classIdx) ==
    CASE classIdx = 0 -> NullSpeaker
      [] classIdx = 1 -> SPEAKER_00
      [] classIdx = 2 -> SPEAKER_01
      [] classIdx = 3 -> SPEAKER_02
      [] classIdx = 4 -> SPEAKER_00
      [] classIdx = 5 -> SPEAKER_00
      [] classIdx = 6 -> SPEAKER_01
      [] OTHER -> NullSpeaker

\* maxVal starts at -Infinity, below every score
MinusInfinity == [neginf |-> TRUE, v |-> 0]
Greater(val, maxVal) == maxVal.neginf \/ val > maxVal.v

\* the last maximum wins
RECURSIVE ArgMaxLoopLast(_, _, _, _)
ArgMaxLoopLast(frame, c, maxVal, idx) ==
    IF c >= numClasses THEN idx
    ELSE IF maxVal.neginf \/ frame[c] >= maxVal.v
         THEN ArgMaxLoopLast(frame, c + 1, [neginf |-> FALSE, v |-> frame[c]], c)
         ELSE ArgMaxLoopLast(frame, c + 1, maxVal, idx)

\* for (c = 0; c < numClasses; c++) if (val > maxVal) { maxVal = val; maxIdx = c }
RECURSIVE ArgMaxLoop(_, _, _, _)
ArgMaxLoop(frame, c, maxVal, idx) ==
    IF c >= numClasses THEN idx
    ELSE IF Greater(frame[c], maxVal)
         THEN ArgMaxLoop(frame, c + 1, [neginf |-> FALSE, v |-> frame[c]], c)
         ELSE ArgMaxLoop(frame, c + 1, maxVal, idx)

\* frame[c] is rawData[i * numClasses + c]
ArgMax(frame) == ArgMaxLoop(frame, 0, MinusInfinity, 0)

totalDuration == RDiv(Rat(samples), Rat(sampleRate))
secondsPerFrame == RDiv(totalDuration, Rat(frames))

\* frame * secondsPerFrame * 1000
FrameMs(frame) == RMul(RMul(Rat(frame), secondsPerFrame), Rat(1000))

PushSegmentToEnd(segs, speaker, from, to) ==
    Append(segs, [speaker |-> speaker, start |-> FrameMs(from), end |-> FrameMs(frames)])

\* a segment that ends at the last frame of its run
PushSegmentLastFrame(segs, speaker, from, to) ==
    Append(segs, [speaker |-> speaker, start |-> FrameMs(from), end |-> FrameMs(to - 1)])

\* segments.push({ speaker, start: from * secondsPerFrame * 1000,
\*                 end: to * secondsPerFrame * 1000 })
PushSegment(segs, speaker, from, to) ==
    Append(segs, [speaker |-> speaker, start |-> FrameMs(from), end |-> FrameMs(to)])

Frames == [0..(numClasses - 1) -> 0..MaxScore]

\* The decoder uses a frame's scores only through ArgMax, which uses them
\* only through comparisons: frames of a low and a high score give every
\* class as the argmax, with and without ties.
TwoLevelFrames == [0..(numClasses - 1) -> {0, 1}]

\* one iteration of for (let i = 0; i < frames; i++)
DecodeFrame ==
    /\ dpc = "loop"
    /\ frameIndex < frames
    /\ \E frame \in TwoLevelFrames :
        LET idx == ArgMax(frame)
            speaker == getSpeakerLabel(idx)
        IN  /\ classes' = Append(classes, idx)
            /\ IF speaker # currentSpeaker
               THEN /\ decSegments' =
                          IF currentSpeaker # NullSpeaker
                          THEN PushSegment(decSegments, currentSpeaker, startFrame, frameIndex)
                          ELSE decSegments
                    /\ currentSpeaker' = speaker
                    /\ startFrame' = frameIndex
               ELSE UNCHANGED <<decSegments, currentSpeaker, startFrame>>
    /\ frameIndex' = frameIndex + 1
    /\ UNCHANGED <<frames, samples, dpc>>

\* the loop has ended: close the final segment
CloseFinal ==
    /\ dpc = "loop"
    /\ frameIndex >= frames
    /\ decSegments' =
          IF currentSpeaker # NullSpeaker
          THEN PushSegment(decSegments, currentSpeaker, startFrame, frames)
          ELSE decSegments
    /\ dpc' = "done"
    /\ UNCHANGED <<frames, samples, frameIndex, currentSpeaker, startFrame, classes>>

SampleCounts == {k * sampleRate : k \in 0..MaxSeconds} \cup {1}

\* the decoder run of 4 frames over 4 seconds with classes 1, 1, 0, 2
Scenario == [frames |-> 4, seconds |-> 4, classes |-> <<1, 1, 0, 2>>]

\* <<logits.dims[1], channelData.length>>
DecoderInputs ==
    ((0..MaxFrames) \X SampleCounts)
    \cup {<<Scenario.frames, Scenario.seconds * sampleRate>>}

InitDecode ==
    /\ \E in \in DecoderInputs : frames = in[1] /\ samples = in[2]
    /\ frameIndex = 0
    /\ currentSpeaker = NullSpeaker
    /\ startFrame = 0
    /\ decSegments = <<>>
    /\ classes = <<>>
    /\ dpc = "loop"

\* the argmax of a single frame
InitArgMax ==
    /\ rawFrame \in Frames
    /\ maxIdx = 0
    /\ apc = "call"

CallArgMax ==
    /\ apc = "call"
    /\ maxIdx' = ArgMax(rawFrame)
    /\ apc' = "done"
    /\ UNCHANGED rawFrame

----------------------------------------------------------------------------
(* Inputs of mergeDiarization *)

Doctor == <<"D", "o", "c", "t", "o", "r">>

\* words with every encoding of a time value; midpoints 250, 850, 1500,
\* 2250 and NaN
WordPool == {
    [word |-> <<"h", "i">>, startTime |-> TNum(Zero), endTime |-> TNum(Rat(500))],
    [word |-> <<"t", "h", "e", "r", "e">>,
     startTime |-> TStr(<<"5", "0", "0">>), endTime |-> TStr(<<"1", "2", "0", "0">>)],
    [word |-> <<"b", "y", "e">>,
     startTime |-> TStr(<<"1", ".", "2", "s">>), endTime |-> TStr(<<"1", ".", "8", "s">>)],
    [word |-> <<"o", "k">>,
     startTime |-> TObj(FNum(Rat(2)), FUndef),
     endTime |-> TObj(FStr(<<"2">>), FNum(Rat(500000000)))],
    [word |-> <<"u", "m">>, startTime |-> TUndef, endTime |-> TStr(<<"x">>)] }

\* canonical and other labels over two intervals; two segments share an interval
SegmentPool == {
    [speaker |-> SPEAKER_00, start |-> Zero, end |-> Rat(1000)],
    [speaker |-> SPEAKER_01, start |-> Zero, end |-> Rat(1000)],
    [speaker |-> UNKNOWN, start |-> Zero, end |-> Rat(1000)],
    [speaker |-> SPEAKER_01, start |-> Rat(1400), end |-> Rat(2200)],
    [speaker |-> Doctor, start |-> Rat(1400), end |-> Rat(2200)] }

SeqsUpTo(S, k) == UNION {[1..m -> S] : m \in 0..k}

InitMerge ==
    /\ words \in SeqsUpTo(WordPool, MaxWords)
    /\ segments \in SeqsUpTo(SegmentPool, MaxSegments)
    /\ utterances = <<>>
    /\ labeledWords = <<>>
    /\ mpc = "call"

CallMerge ==
    /\ mpc = "call"
    /\ utterances' = mergeDiarization(words, segments)
    /\ labeledWords' = IF Len(segments) = 0 THEN <<>>
                       ELSE ResolvedWords(words, segments)
    /\ mpc' = "done"
    /\ UNCHANGED <<words, segments>>


----------------------------------------------------------------------------
(* Inputs of getMs *)

TimeChars == {"0", "1", "5", ".", "s", "x"}

StringsUpTo(k) == UNION {[1..m -> TimeChars] : m \in 0..k}

SecondsFields == {FUndef, FNum(Zero), FNum(NaN), FNum(Rat(2)),
                  FStr(<<"1">>), FStr(<<"0">>), FStr(<<"1", ".", "5">>),
                  FStr(<<"x">>), FStr(<<>>)}
NanosFields == {FUndef, FNum(Zero), FNum(Rat(500000)), FNum(Rat(500000000)),
                FStr(<<"5">>), FStr(<<"x">>)}

TimeInputs ==
    {TUndef, TNull, TNum(Zero), TNum(NaN), TNum(Rat(1500)), TNum(Norm(5, 2))}
    \cup {TStr(s) : s \in StringsUpTo(MaxStrLen)}
    \cup {TObj(s, n) : s \in SecondsFields, n \in NanosFields}

----------------------------------------------------------------------------
(* refineSpeakerLabels *)

Patient == <<"P", "a", "t", "i", "e", "n", "t">>

\* What groq.chat.completions.create and JSON.parse make of the request:
\*   "throw"      the call rejects
\*   "nocontent"  choices[0]?.message?.content is undefined, null or ''
\*   "malformed"  JSON.parse throws
\*   "null"       the content parses to null
\*   "mapping"    the content parses to an object, map its string properties
RefineReply(kind, map) == [kind |-> kind, map |-> map]

ApplyMappingOrEmpty(u, mapping) ==
    [u EXCEPT !.speaker = IF u.speaker \in DOMAIN mapping /\ mapping[u.speaker] # <<>>
                          THEN mapping[u.speaker] ELSE <<>>]

\* { ...u, speaker: mapping[u.speaker] || u.speaker }
ApplyMapping(u, mapping) ==
    [u EXCEPT !.speaker = IF u.speaker \in DOMAIN mapping /\ mapping[u.speaker] # <<>>
                          THEN mapping[u.speaker] ELSE u.speaker]

refineSpeakerLabels(us, reply) ==
    IF Len(us) = 0 THEN us
    ELSE CASE reply.kind = "throw" -> us
           [] reply.kind = "nocontent" -> us
           [] reply.kind = "malformed" -> us
           [] reply.kind = "null" -> us
           [] OTHER -> [k \in 1..Len(us) |-> ApplyMapping(us[k], reply.map)]

UtterancePool ==
    {[speaker |-> sp, text |-> tx[1], start |-> tx[2], end |-> tx[3]] :
        sp \in {<<"A">>, <<"B">>, <<"C">>},
        tx \in {<<<<"h", "i">>, Zero, Rat(500)>>,
                <<<<"o", "k", " ", "b", "y", "e">>, Rat(500), Norm(3001, 2)>>}}

Mappings == UNION {[ks -> {Doctor, Patient, <<>>}] : ks \in SUBSET {<<"A">>, <<"B">>}}

RefineReplies ==
    {RefineReply(k, <<>>) : k \in {"throw", "nocontent", "malformed", "null"}}
    \cup {RefineReply("mapping", m) : m \in Mappings}

InitRefine ==
    /\ rUtterances \in SeqsUpTo(UtterancePool, MaxUtterances)
    /\ rReply \in RefineReplies
    /\ rResult = <<>>
    /\ rpc = "call"

CallRefine ==
    /\ rpc = "call"
    /\ rResult' = refineSpeakerLabels(rUtterances, rReply)
    /\ rpc' = "done"
    /\ UNCHANGED <<rUtterances, rReply>>

----------------------------------------------------------------------------
(* diarizeWithGroq *)

Unknown == <<"U", "n", "k", "n", "o", "w", "n">>

\* !text.trim(): only whitespace
Blank(text) == \A p \in 1..Len(text) : text[p] = " "

\* text.split(/\s+/).filter(w => w.length > 0).length, from position p on;
\* inWord tells whether position p - 1 is inside a token
RECURSIVE CountTokens(_, _, _)
CountTokens(text, p, inWord) ==
    IF p > Len(text) THEN 0
    ELSE IF text[p] = " " THEN CountTokens(text, p + 1, FALSE)
    ELSE (IF inWord THEN 0 ELSE 1) + CountTokens(text, p + 1, TRUE)

Min(a, b) == IF a <= b THEN a ELSE b

EndWordIndexUnclamped(wordIndex, length) == wordIndex - 1

\* Math.min(wordIndex - 1, words.length - 1), a 0-based index
EndWordIndex(wordIndex, length) == Min(wordIndex - 1, length - 1)

\* for (const segment of segments) from segment k on; wordIndex is 0-based.
\* Reading a field of words[j] for j outside the array throws.
RECURSIVE RealignLoop(_, _, _, _, _)
RealignLoop(ws, segs, k, wordIndex, out) ==
    IF k > Len(segs) THEN [utterances |-> out, raised |-> FALSE]
    ELSE IF Blank(segs[k].text) THEN RealignLoop(ws, segs, k + 1, wordIndex, out)
    ELSE LET count == CountTokens(segs[k].text, 1, FALSE) IN
         IF count = 0 THEN RealignLoop(ws, segs, k + 1, wordIndex, out)
         ELSE IF wordIndex >= Len(ws) THEN [utterances |-> out, raised |-> FALSE]
         ELSE LET next == wordIndex + count
                  endIdx == EndWordIndex(next, Len(ws))
              IN  IF endIdx < 0 \/ endIdx >= Len(ws)
                  THEN [utterances |-> out, raised |-> TRUE]
                  ELSE LET u == [speaker |-> segs[k].speaker,
                                 text |-> segs[k].text,
                                 start |-> getMs(ws[wordIndex + 1].startTime),
                                 end |-> getMs(ws[endIdx + 1].endTime)]
                       IN  IF next >= Len(ws)
                           THEN [utterances |-> Append(out, u), raised |-> FALSE]
                           ELSE RealignLoop(ws, segs, k + 1, next, Append(out, u))

\* What the request and JSON.parse give:
\*   "throw", "nocontent", "malformed", "null" as for refineSpeakerLabels;
\*   "parsed": wrap = "array" for [...], "segments" for { segments: [...] },
\*   "turns" for { turns: [...] }, "other" for an object with neither.
\* The elements of the list have the declared type { speaker: string; text: string }.
GroqReply(kind, wrap, segs) == [kind |-> kind, wrap |-> wrap, segs |-> segs]

\* Array.isArray(parsed) ? parsed : (parsed.segments || parsed.turns || [])
ParsedSegments(reply) == IF reply.wrap = "other" THEN <<>> ELSE reply.segs

\* the try block fails: a throw, no content, a parse error, parsed null,
\* or an empty segment list
GroqFailed(reply) == reply.kind # "parsed" \/ Len(ParsedSegments(reply)) = 0

FallbackBlock(ws) ==
    <<[speaker |-> Unknown,
       text |-> Join([k \in 1..Len(ws) |-> ws[k].word]),
       start |-> getMs(ws[1].startTime),
       end |-> getMs(ws[Len(ws)].endTime)]>>

diarizeWithGroq(ws, reply) ==
    IF Len(ws) = 0 THEN [utterances |-> <<>>, raised |-> FALSE]
    ELSE IF GroqFailed(reply) THEN [utterances |-> FallbackBlock(ws), raised |-> FALSE]
    ELSE RealignLoop(ws, ParsedSegments(reply), 1, 0, <<>>)

GroqWordPool == {w \in WordPool : w.word \in {<<"h", "i">>, <<"o", "k">>, <<"u", "m">>}}

TurnTexts == {<<>>, <<" ">>, <<"a">>, <<"a", " ", "b">>,
              <<" ", "a", " ", " ", "b", " ", "c">>}

TurnPool == {[speaker |-> sp, text |-> tx] : sp \in {Doctor, Patient}, tx \in TurnTexts}

GroqReplies ==
    {GroqReply(k, "other", <<>>) : k \in {"throw", "nocontent", "malformed", "null", "parsed"}}
    \cup {GroqReply("parsed", w, ts) :
              w \in {"array", "segments", "turns"}, ts \in SeqsUpTo(TurnPool, MaxTurns)}

InitGroq ==
    /\ qWords \in SeqsUpTo(GroqWordPool, MaxGroqWords)
    /\ qReply \in GroqReplies
    /\ qResult = <<>>
    /\ qRaised = FALSE
    /\ qpc = "call"

CallGroq ==
    /\ qpc = "call"
    /\ LET r == diarizeWithGroq(qWords, qReply) IN
          /\ qResult' = r.utterances
          /\ qRaised' = r.raised
    /\ qpc' = "done"
    /\ UNCHANGED <<qWords, qReply>>

----------------------------------------------------------------------------
(* loadModel, called by concurrent diarizeAudio calls *)

Calls == 1..MaxCalls

\* if (!processor || !model): the call starts AutoProcessor.from_pretrained
\* and suspends at its await; otherwise it returns the handles as they are
EnterLoadModel(c) ==
    /\ lpc[c] = "start"
    /\ IF processor = 0 \/ model = 0
       THEN /\ processorLoads' = processorLoads + 1
            /\ pending' = [pending EXCEPT ![c] = processorLoads + 1]
            /\ lpc' = [lpc EXCEPT ![c] = "awaitProcessor"]
            /\ UNCHANGED pair
       ELSE /\ pair' = [pair EXCEPT ![c] = <<processor, model>>]
            /\ lpc' = [lpc EXCEPT ![c] = "loaded"]
            /\ UNCHANGED <<processorLoads, pending>>
    /\ UNCHANGED <<processor, model, modelLoads>>

\* the processor arrives: processor = ...; the call starts
\* AutoModelForAudioFrameClassification.from_pretrained and suspends again
ProcessorLoaded(c) ==
    /\ lpc[c] = "awaitProcessor"
    /\ processor' = pending[c]
    /\ modelLoads' = modelLoads + 1
    /\ pending' = [pending EXCEPT ![c] = modelLoads + 1]
    /\ lpc' = [lpc EXCEPT ![c] = "awaitModel"]
    /\ UNCHANGED <<model, pair, processorLoads>>

\* the model arrives: model = ...; return { processor, model }
ModelLoaded(c) ==
    /\ lpc[c] = "awaitModel"
    /\ model' = pending[c]
    /\ pair' = [pair EXCEPT ![c] = <<processor, pending[c]>>]
    /\ lpc' = [lpc EXCEPT ![c] = "loaded"]
    /\ UNCHANGED <<processor, pending, processorLoads, modelLoads>>

\* a from_pretrained rejects: the catch of diarizeAudio returns []
LoadRejected(c) ==
    /\ lpc[c] \in {"awaitProcessor", "awaitModel"}
    /\ lpc' = [lpc EXCEPT ![c] = "failed"]
    /\ UNCHANGED <<processor, model, pending, pair, processorLoads, modelLoads>>

InitLoad ==
    /\ processor = 0
    /\ model = 0
    /\ lpc = [c \in Calls |-> "start"]
    /\ pending = [c \in Calls |-> 0]
    /\ pair = [c \in Calls |-> <<0, 0>>]
    /\ processorLoads = 0
    /\ modelLoads = 0

IdleGetMs == gIn = TUndef /\ gOut = Zero /\ gpc = "idle"
IdleMerge ==
    /\ words = <<>> /\ segments = <<>> /\ utterances = <<>>
    /\ labeledWords = <<>> /\ mpc = "idle"
IdleDecode ==
    /\ frames = 0 /\ samples = 0 /\ frameIndex = 0 /\ currentSpeaker = NullSpeaker
    /\ startFrame = 0 /\ decSegments = <<>> /\ classes = <<>> /\ dpc = "idle"
IdleArgMax == rawFrame = [c \in 0..(numClasses - 1) |-> 0] /\ maxIdx = 0 /\ apc = "idle"
IdleRefine ==
    /\ rUtterances = <<>> /\ rReply = RefineReply("throw", <<>>)
    /\ rResult = <<>> /\ rpc = "idle"
IdleLoad ==
    /\ processor = 0 /\ model = 0 /\ lpc = [c \in Calls |-> "idle"]
    /\ pending = [c \in Calls |-> 0] /\ pair = [c \in Calls |-> <<0, 0>>]
    /\ processorLoads = 0 /\ modelLoads = 0
IdleGroq ==
    /\ qWords = <<>> /\ qReply = GroqReply("throw", "other", <<>>)
    /\ qResult = <<>> /\ qRaised = FALSE /\ qpc = "idle"

getMsVars == <<gIn, gOut, gpc>>
mergeVars == <<words, segments, utterances, mpc, labeledWords>>
decodeVars == <<frames, samples, frameIndex, currentSpeaker, startFrame, decSegments, classes, dpc>>
argMaxVars == <<rawFrame, maxIdx, apc>>
refineVars == <<rUtterances, rReply, rResult, rpc>>
groqVars == <<qWords, qReply, qResult, qRaised, qpc>>
loadVars == <<processor, model, lpc, pending, pair, processorLoads, modelLoads>>

InitGetMs ==
    /\ gIn \in TimeInputs
    /\ gOut = Zero
    /\ gpc = "call"

CallGetMs ==
    /\ gpc = "call"
    /\ gOut' = getMs(gIn)
    /\ gpc' = "done"
    /\ UNCHANGED gIn

----------------------------------------------------------------------------
(* Specifications: one per operation, the other operations idle *)

SpecGetMsInit ==
    InitGetMs /\ IdleMerge /\ IdleDecode /\ IdleArgMax /\ IdleRefine /\ IdleGroq
    /\ IdleLoad
NextGetMs ==
    CallGetMs /\ UNCHANGED <<mergeVars, decodeVars, argMaxVars, refineVars, groqVars, loadVars>>
SpecGetMs == SpecGetMsInit /\ [][NextGetMs]_vars

SpecMergeInit ==
    InitMerge /\ IdleGetMs /\ IdleDecode /\ IdleArgMax /\ IdleRefine /\ IdleGroq
    /\ IdleLoad
NextMerge ==
    CallMerge /\ UNCHANGED <<getMsVars, decodeVars, argMaxVars, refineVars, groqVars, loadVars>>
SpecMerge == SpecMergeInit /\ [][NextMerge]_vars

SpecDecodeInit ==
    InitDecode /\ IdleGetMs /\ IdleMerge /\ IdleArgMax /\ IdleRefine /\ IdleGroq
    /\ IdleLoad
NextDecode ==
    \/ DecodeFrame /\ UNCHANGED <<getMsVars, mergeVars, argMaxVars, refineVars, groqVars, loadVars>>
    \/ CloseFinal /\ UNCHANGED <<getMsVars, mergeVars, argMaxVars, refineVars, groqVars, loadVars>>
SpecDecode == SpecDecodeInit /\ [][NextDecode]_vars

SpecArgMaxInit ==
    InitArgMax /\ IdleGetMs /\ IdleMerge /\ IdleDecode /\ IdleRefine /\ IdleGroq
    /\ IdleLoad
NextArgMax ==
    CallArgMax /\ UNCHANGED <<getMsVars, mergeVars, decodeVars, refineVars, groqVars, loadVars>>
SpecArgMax == SpecArgMaxInit /\ [][NextArgMax]_vars

SpecRefineInit ==
    InitRefine /\ IdleGetMs /\ IdleMerge /\ IdleDecode /\ IdleArgMax /\ IdleGroq
    /\ IdleLoad
NextRefine ==
    CallRefine /\ UNCHANGED <<getMsVars, mergeVars, decodeVars, argMaxVars, groqVars, loadVars>>
SpecRefine == SpecRefineInit /\ [][NextRefine]_vars

SpecGroqInit ==
    InitGroq /\ IdleGetMs /\ IdleMerge /\ IdleDecode /\ IdleArgMax /\ IdleRefine
    /\ IdleLoad
NextGroq ==
    CallGroq /\ UNCHANGED <<getMsVars, mergeVars, decodeVars, argMaxVars, refineVars, loadVars>>
SpecGroq == SpecGroqInit /\ [][NextGroq]_vars

SpecLoadInit ==
    InitLoad /\ IdleGetMs /\ IdleMerge /\ IdleDecode /\ IdleArgMax /\ IdleRefine
    /\ IdleGroq
OthersUnchanged ==
    UNCHANGED <<getMsVars, mergeVars, decodeVars, argMaxVars, refineVars, groqVars>>
NextLoad ==
    \/ \E c \in Calls : EnterLoadModel(c) /\ OthersUnchanged
    \/ \E c \in Calls : ProcessorLoaded(c) /\ OthersUnchanged
    \/ \E c \in Calls : ModelLoaded(c) /\ OthersUnchanged
    \/ \E c \in Calls : LoadRejected(c) /\ OthersUnchanged
SpecLoad == SpecLoadInit /\ [][NextLoad]_vars

----------------------------------------------------------------------------
(* Properties of mergeDiarization *)

UtteranceTexts == [i \in 1..Len(utterances) |-> utterances[i].text]
WordTexts == [i \in 1..Len(words) |-> words[i].word]

\* C1: the texts of the returned utterances, joined in order with single
\* spaces, are the input word texts joined in order with single spaces.
C1_LosslessPartition ==
    mpc = "done" => Join(UtteranceTexts) = Join(WordTexts)

C1_Witness ==
    /\ mpc = "done"
    /\ Len(words) = MaxWords
    /\ Len(segments) > 0
    /\ Len(utterances) >= 2

\* C2: with a non-empty word list no returned utterance has the speaker
\* 'UNKNOWN'.
C2_NoUnknownSpeaker ==
    mpc = "done" /\ Len(words) > 0 =>
        \A i \in 1..Len(utterances) : utterances[i].speaker # UNKNOWN

\* segments are present and no word's midpoint lies in any of them
C2_Witness ==
    /\ mpc = "done"
    /\ Len(words) >= 2
    /\ Len(segments) > 0
    /\ \A i \in 1..Len(words) : LabelWord(words[i], segments).speaker = UNKNOWN

\* C3: no segments and at least one word give exactly one utterance, of
\* speaker 'A', holding all the word texts, from the first word's normalized
\* start to the last word's normalized end.
C3_EmptySegmentsFallback ==
    mpc = "done" /\ Len(segments) = 0 /\ Len(words) > 0 =>
        /\ Len(utterances) = 1
        /\ utterances[1].speaker = <<"A">>
        /\ utterances[1].text = Join(WordTexts)
        /\ utterances[1].start = getMs(words[1].startTime)
        /\ utterances[1].end = getMs(words[Len(words)].endTime)

C3_Witness ==
    /\ mpc = "done"
    /\ Len(segments) = 0
    /\ Len(words) >= 2
    /\ getMs(words[1].endTime) # getMs(words[Len(words)].endTime)

\* C4: no segments and no words give the empty utterance sequence.
C4_EmptyInputEmptyOutput ==
    mpc = "done" /\ Len(segments) = 0 /\ Len(words) = 0 => utterances = <<>>

----------------------------------------------------------------------------
(* Properties of getMs *)

\* s does not begin with a number
NonNumeric(s) ==
    ~ \/ Len(s) >= 1 /\ s[1] \in Digits
      \/ Len(s) >= 2 /\ s[1] = "." /\ s[2] \in Digits

FieldUnparseable(f) == f.kind = "undefined" \/ (f.kind = "string" /\ NonNumeric(f.str))

Missing(t) == t.kind \in {"undefined", "null"}

Unparseable(t) ==
    \/ t.kind = "string" /\ NonNumeric(t.str)
    \/ t.kind = "object" /\ FieldUnparseable(t.seconds) /\ FieldUnparseable(t.nanos)

\* C7: getMs returns 0 for every missing or unparseable time value.
C7_LenientZero ==
    gpc = "done" /\ (Missing(gIn) \/ Unparseable(gIn)) => gOut = Zero

----------------------------------------------------------------------------
(* Properties of the decoder *)

\* C5: every emitted segment has start <= end and ends no later than the
\* next one starts, so the segments are in non-decreasing start order and
\* never overlap.
C5_OrderedDisjoint ==
    \A k \in 1..Len(decSegments) :
        /\ RLe(decSegments[k].start, decSegments[k].end)
        /\ k < Len(decSegments) =>
              /\ RLe(decSegments[k].end, decSegments[k + 1].start)
              /\ RLe(decSegments[k].start, decSegments[k + 1].start)

C5_Witness ==
    /\ dpc = "done"
    /\ samples > 0
    /\ Len(decSegments) = MaxFrames

\* the label SPEAKER_0n of solo speaker n
SpeakerTag(n) == SPEAKER_ \o <<"0">> \o <<CHOOSE ch \in Digits : DigitVal(ch) = n>>

\* the powerset table: class 0 is silence, classes 1..3 are the solo speakers
\* 0..2, classes 4..6 are the pairs A+B, A+C, B+C
OverlapPairs == <<{0, 1}, {0, 2}, {1, 2}>>
LowestOf(S) == CHOOSE n \in S : \A m \in S : n <= m
PowersetLabel(c) ==
    IF c = 0 THEN NullSpeaker
    ELSE IF c <= 3 THEN SpeakerTag(c - 1)
    ELSE SpeakerTag(LowestOf(OverlapPairs[c - 3]))

\* C11: the frame last read is attributed to exactly one speaker: none for
\* class 0, speaker c - 1 for a solo class c, and the lowest-indexed speaker
\* of the pair for an overlap class (4 -> 0, 5 -> 0, 6 -> 1).
C11_OverlapToFirstSpeaker ==
    Len(classes) > 0 =>
        currentSpeaker = PowersetLabel(classes[Len(classes)])

\* every overlap class has been read in one run
C11_Witness ==
    /\ dpc = "done"
    /\ Len(classes) = MaxFrames
    /\ \A k \in 1..Len(classes) : classes[k] >= 4
    /\ classes[Len(classes)] = 6
    /\ Len(decSegments) >= 2

RECURSIVE SumDurations(_)
SumDurations(segs) ==
    IF Len(segs) = 0 THEN Zero
    ELSE RAdd(RSub(segs[1].end, segs[1].start), SumDurations(Tail(segs)))

TotalMs == RMul(totalDuration, Rat(1000))
SomeFrameSilent == \E k \in 1..Len(classes) : classes[k] = 0

C10_LowestIndexWins ==
    apc = "done" =>
        /\ \A c \in 0..(numClasses - 1) : rawFrame[c] <= rawFrame[maxIdx]
        /\ \A c \in 0..(numClasses - 1) : rawFrame[c] = rawFrame[maxIdx] => maxIdx <= c

\* the highest score is attained by several classes, the lowest not class 0
C10_Witness ==
    /\ apc = "done"
    /\ maxIdx > 0
    /\ \E c \in 0..(numClasses - 1) : c # maxIdx /\ rawFrame[c] = rawFrame[maxIdx]

----------------------------------------------------------------------------
(* Properties of the collaborator boundary *)

RefineFailed == rReply.kind # "mapping"

\* C8: whatever the relabeling collaborator returns, the result has the
\* length and order of the input, every utterance keeps its text, start and
\* end, a speaker changes only when it is a key of the returned mapping, and
\* on a failure the result is the input.
C8_RefineFrame ==
    rpc = "done" =>
        /\ Len(rResult) = Len(rUtterances)
        /\ \A k \in 1..Len(rResult) :
              /\ rResult[k].text = rUtterances[k].text
              /\ rResult[k].start = rUtterances[k].start
              /\ rResult[k].end = rUtterances[k].end
              /\ rResult[k].speaker # rUtterances[k].speaker =>
                    /\ ~RefineFailed
                    /\ rUtterances[k].speaker \in DOMAIN rReply.map
        /\ RefineFailed => rResult = rUtterances

\* a mapping that renames one utterance and has no key for another
C8_Witness ==
    /\ rpc = "done"
    /\ ~RefineFailed
    /\ \E k \in 1..Len(rResult) : rResult[k].speaker # rUtterances[k].speaker
    /\ \E k \in 1..Len(rResult) : rUtterances[k].speaker \notin DOMAIN rReply.map

\* the number of whitespace-separated tokens of a text
TokenCount(text) ==
    Cardinality({p \in 1..Len(text) :
                    text[p] # " " /\ (p = 1 \/ text[p - 1] = " ")})

\* the returned segments that hold at least one token
Turns == SelectSeq(ParsedSegments(qReply), LAMBDA t : TokenCount(t.text) > 0)

\* the number of words the turns before turn j ask for
RECURSIVE WordsBefore(_)
WordsBefore(j) == IF j <= 1 THEN 0
                  ELSE WordsBefore(j - 1) + TokenCount(Turns[j - 1].text)

\* the turns that begin before the words run out
Served == {j \in 1..Len(Turns) : WordsBefore(j) < Len(qWords)}

\* C9: with words and a non-empty segment list, turn j of k tokens takes the
\* next k words (or those that are left), its utterance starts at the start
\* of the first of them and ends at the end of the last; turns that begin
\* after the words have run out give nothing; and no call throws.
C9_RealignByCount ==
    qpc = "done" =>
        /\ ~qRaised
        /\ Len(qWords) > 0 /\ ~GroqFailed(qReply) =>
              /\ Len(qResult) = Cardinality(Served)
              /\ \A j \in 1..Len(qResult) :
                    /\ qResult[j].speaker = Turns[j].speaker
                    /\ qResult[j].text = Turns[j].text
                    /\ qResult[j].start = getMs(qWords[WordsBefore(j) + 1].startTime)
                    /\ qResult[j].end =
                          getMs(qWords[Min(WordsBefore(j) + TokenCount(Turns[j].text),
                                           Len(qWords))].endTime)

\* the words run out inside one turn while another turn is still waiting
C9_Witness ==
    /\ qpc = "done"
    /\ ~GroqFailed(qReply)
    /\ Len(qWords) >= 2
    /\ Len(qResult) >= 1
    /\ Len(qResult) < Len(Turns)
    /\ WordsBefore(Len(qResult)) + TokenCount(Turns[Len(qResult)].text) > Len(qWords)

----------------------------------------------------------------------------
(* Gap resolution and collapse in mergeDiarization *)

\* the midpoint of word w lies in segment k: start + end within twice the bounds
Covers(k, w) ==
    LET sum == RAdd(getMs(words[w].startTime), getMs(words[w].endTime))
    IN  /\ RGe(sum, RMul(Rat(2), segments[k].start))
        /\ RLe(sum, RMul(Rat(2), segments[k].end))

Matched(w) == \E k \in 1..Len(segments) : Covers(k, w)
FirstCover(w) == CHOOSE k \in 1..Len(segments) :
                    Covers(k, w) /\ \A j \in 1..(k - 1) : ~Covers(j, w)

\* the word matched a segment whose label is not the unmatched marker
Labelled(w) == Matched(w) /\ segments[FirstCover(w)].speaker # UNKNOWN

\* one flag per word among the first n: does the word count as matched
RECURSIVE MatchedFlags(_)
MatchedFlags(n) == IF n = 0 THEN <<>> ELSE Append(MatchedFlags(n - 1), Matched(n))
RECURSIVE LabelledFlags(_)
LabelledFlags(n) == IF n = 0 THEN <<>> ELSE Append(LabelledFlags(n - 1), Labelled(n))

\* the speaker that gap resolution owes word w, given which words count as
\* matched (isMatched[v] for every word v): its segment's canonical label,
\* else the speaker of the nearest matched word before it, else of the
\* nearest matched word after it, else 'A'
Resolved(w, isMatched) ==
    LET before == {v \in 1..(w - 1) : isMatched[v]}
        after == {v \in (w + 1)..Len(words) : isMatched[v]}
    IN  IF isMatched[w] THEN Canonical(segments[FirstCover(w)].speaker)
        ELSE IF before # {}
             THEN labeledWords[CHOOSE v \in before : \A u \in before : u <= v].speaker
        ELSE IF after # {}
             THEN labeledWords[CHOOSE v \in after : \A u \in after : v <= u].speaker
        ELSE <<"A">>

SingleDefaultWhenNoMatch(isMatched) ==
    (Len(words) > 0 /\ \A w \in 1..Len(words) : ~isMatched[w]) =>
        /\ Len(utterances) = 1
        /\ utterances[1].speaker = <<"A">>
        /\ utterances[1].text = Join(WordTexts)

GapsResolved(isMatched) ==
    /\ Len(labeledWords) = Len(words)
    /\ \A w \in 1..Len(words) : labeledWords[w].speaker = Resolved(w, isMatched)
    /\ SingleDefaultWhenNoMatch(isMatched)

\* C12 as stated: with segments present, a word that matched a segment has
\* that segment's canonical label, an unmatched word has the speaker of the
\* nearest matched word before it, else after it, else 'A'.
C12_GapResolution ==
    mpc = "done" /\ Len(segments) > 0 =>
        GapsResolved(MatchedFlags(Len(words)))

\* C12 amended: the same, where a word whose segment is labelled 'UNKNOWN'
\* counts as unmatched.
C12_GapResolutionKnownLabels ==
    mpc = "done" /\ Len(segments) > 0 =>
        GapsResolved(LabelledFlags(Len(words)))

\* an unmatched word before the first matched one and one after the last
C12_Witness ==
    /\ mpc = "done"
    /\ Len(segments) > 0
    /\ Len(words) = MaxWords
    /\ ~Labelled(1)
    /\ Labelled(2)
    /\ ~Labelled(Len(words))
    /\ labeledWords[2].speaker # <<"A">>

\* the words at which a run of one final speaker begins
RunStarts == {w \in 1..Len(words) :
                 w = 1 \/ labeledWords[w].speaker # labeledWords[w - 1].speaker}
NthRunStart(j) == CHOOSE w \in RunStarts : Cardinality({v \in RunStarts : v < w}) = j - 1
NthRunEnd(j) == IF j = Cardinality(RunStarts) THEN Len(words) ELSE NthRunStart(j + 1) - 1

\* C14: with segments and words present the utterances are the maximal runs
\* of words with one final speaker: consecutive utterances differ in speaker,
\* and each utterance has its run's speaker and joined texts, the normalized
\* start of the run's first word and the normalized end of its last word.
C14_MaximalRuns ==
    mpc = "done" /\ Len(segments) > 0 /\ Len(words) > 0 =>
        /\ Len(utterances) = Cardinality(RunStarts)
        /\ \A j \in 1..(Len(utterances) - 1) :
              utterances[j].speaker # utterances[j + 1].speaker
        /\ \A j \in 1..Len(utterances) :
              /\ utterances[j].speaker = labeledWords[NthRunStart(j)].speaker
              /\ utterances[j].text =
                    Join(SubSeq(WordTexts, NthRunStart(j), NthRunEnd(j)))
              /\ utterances[j].start = getMs(words[NthRunStart(j)].startTime)
              /\ utterances[j].end = getMs(words[NthRunEnd(j)].endTime)

\* a run of several words next to a run of another speaker
C14_Witness ==
    /\ mpc = "done"
    /\ Len(segments) > 0
    /\ Len(words) = MaxWords
    /\ Len(utterances) = 2
    /\ \E j \in 1..2 :
          /\ NthRunEnd(j) > NthRunStart(j)
          /\ getMs(words[NthRunStart(j)].endTime) # getMs(words[NthRunEnd(j)].endTime)

----------------------------------------------------------------------------
(* Run-length encoding in the decoder *)

\* the label of the k-th frame read (frame index k - 1)
FrameLabel(k) == getSpeakerLabel(classes[k])

\* the frames at which a run of one non-null label begins
SegmentStarts == {k \in 1..Len(classes) :
                     /\ FrameLabel(k) # NullSpeaker
                     /\ k = 1 \/ FrameLabel(k - 1) # FrameLabel(k)}
NthSegmentStart(j) ==
    CHOOSE k \in SegmentStarts : Cardinality({v \in SegmentStarts : v < k}) = j - 1
\* the first frame after k that is not in k's run, Len(classes) + 1 if none
RunEnd(k) ==
    CHOOSE e \in (k + 1)..(Len(classes) + 1) :
        /\ e = Len(classes) + 1 \/ FrameLabel(e) # FrameLabel(k)
        /\ \A v \in (k + 1)..(e - 1) : FrameLabel(v) = FrameLabel(k)

\* boundary f of frames, in ms: f * (samples / sampleRate / frames) * 1000
BoundaryMs(f) == Norm(f * samples * 1000, sampleRate * frames)

OneSegmentPerRun ==
    /\ Len(decSegments) = Cardinality(SegmentStarts)
    /\ \A j \in 1..Len(decSegments) :
          LET k == NthSegmentStart(j) IN
          /\ decSegments[j].speaker = FrameLabel(k)
          /\ decSegments[j].start = BoundaryMs(k - 1)
          /\ decSegments[j].end = BoundaryMs(RunEnd(k) - 1)

EmptyWhenSilent ==
    (frames = 0 \/ \A k \in 1..Len(classes) : classes[k] = 0) => decSegments = <<>>

TouchingDiffer ==
    \A j \in 1..(Len(decSegments) - 1) :
        decSegments[j].end = decSegments[j + 1].start =>
            decSegments[j].speaker # decSegments[j + 1].speaker

ScenarioRun ==
    /\ frames = Scenario.frames
    /\ samples = Scenario.seconds * sampleRate
    /\ classes = Scenario.classes

ScenarioSegments ==
    <<[speaker |-> SPEAKER_00, start |-> Zero, end |-> Rat(2000)],
      [speaker |-> SPEAKER_01, start |-> Rat(3000), end |-> Rat(4000)]>>

\* C13 as stated: one segment per maximal run of frames with the same
\* non-null label, from the run's first frame boundary to the boundary after
\* its last frame; nothing for silence; touching segments differ in speaker;
\* nothing at all for no frames or only silence; the 4-frame example.
C13_RunLengthEncoding ==
    dpc = "done" =>
        /\ OneSegmentPerRun
        /\ EmptyWhenSilent
        /\ TouchingDiffer
        /\ ScenarioRun => decSegments = ScenarioSegments

\* C13 amended: the same, with touching segments differing in speaker when
\* the audio is not empty.
C13_RunLengthEncodingNonEmptyAudio ==
    dpc = "done" =>
        /\ OneSegmentPerRun
        /\ EmptyWhenSilent
        /\ samples > 0 => TouchingDiffer
        /\ ScenarioRun => decSegments = ScenarioSegments

\* the 4-frame example has been decoded
C13_Witness ==
    /\ dpc = "done"
    /\ ScenarioRun
    /\ Len(decSegments) = 2

----------------------------------------------------------------------------
(* The model handle *)

Loaded == {c \in Calls : lpc[c] = "loaded"}

\* C15: over any interleaving of calls the processor and the model are each
\* loaded at most once, and all calls that get past loadModel hold the same,
\* fully initialized pair.
C15_Singleton ==
    /\ processorLoads <= 1
    /\ modelLoads <= 1
    /\ \A c \in Loaded : pair[c][1] # 0 /\ pair[c][2] # 0
    /\ \A c, d \in Loaded : pair[c] = pair[d]

====
